---- MODULE Spec2Model ----
(***************************************************************************)
(* RawEncryptingStream (python/tink/streaming_aead/_encrypting_stream.py): *)
(* a write-only io.RawIOBase that forwards plaintext to a C++ encrypting   *)
(* stream (the "engine") which emits ciphertext to a destination (the      *)
(* "sink").  The model follows one stream object from construction to      *)
(* finalization.  The engine is an external collaborator: each call into   *)
(* it has a nondeterministic outcome (a reported count, or a failure).     *)
(* Methods inherited from io.RawIOBase (closed, flush, close, __del__)     *)
(* behave as CPython's _io._IOBase implements them.                        *)
(***************************************************************************)
EXTENDS Integers, Sequences, FiniteSets

VARIABLES phase, closed, engine, sink, hist, last, nops, plan

vars == <<phase, closed, engine, sink, hist, last, nops, plan>>

(* ------------------------------ bounds --------------------------------- *)
\* number of caller operations in one behaviour
MaxOps == 3
\* largest buffer, in bytes
MaxLen == 2
\* number of calls of a caller that writes one plaintext in chunks
MaxChunkOps == 4

\* two byte values are enough to tell the bytes of a buffer apart
Byte == {0, 1}

\* the item widths of a memoryview: one byte (format "B") or two (format "H")
ItemSizes == {1, 2}

RECURSIVE SeqsOfLen(_)
SeqsOfLen(n) ==
  IF n = 0 THEN {<<>>}
  ELSE {Append(s, x) : s \in SeqsOfLen(n - 1), x \in Byte}

ByteSeqs == UNION {SeqsOfLen(n) : n \in 0..MaxLen}

(* ------------------------- argument values ----------------------------- *)
\* the buffers of n zero bytes, n \in 0..MaxLen
ZeroSeqs == {[i \in 1..n |-> 0] : n \in 0..MaxLen}

\* the buffers of a one byte followed by zero bytes, of length 1..MaxLen: a
\* prefix of one differs from the suffix of the same length
OneFirstSeqs == {[i \in 1..n |-> IF i = 1 THEN 1 ELSE 0] : n \in 1..MaxLen}

\* A write() argument: its Python type, its content as raw bytes, and the width
\* in bytes of one item (1 for bytes, bytearray and str; the item size of the
\* format for a memoryview, whose byte length is a multiple of it).  bytes
\* come with two contents for every length; the other types are taken
\* zero-filled, of every length.
Buffers ==
  {[kind |-> "bytes", data |-> d, itemsize |-> 1] :
      d \in ZeroSeqs \cup OneFirstSeqs}
  \cup
  {[kind |-> k, data |-> d, itemsize |-> 1] :
      k \in {"bytearray", "str"}, d \in ZeroSeqs}
  \cup
  {b \in [kind : {"memoryview"}, data : ZeroSeqs, itemsize : ItemSizes] :
      Len(b.data) % b.itemsize = 0}

NoBuf == [kind |-> "none", data |-> <<>>, itemsize |-> 1]

\* len(b): the number of items
PyLen(b) == Len(b.data) \div b.itemsize

\* bytes(b): the raw bytes of a bytes-like object
PyBytes(b) == b.data

\* isinstance(b, (bytes, memoryview, bytearray))
IsBytesLike(b) == b.kind \in {"bytes", "memoryview", "bytearray"}

(* --------------------------- the engine -------------------------------- *)
\* Outcome of one call into the engine: err is "none" or the type of the error
\* of the lower layer (the binding's status error, or an error of the sink
\* adapter the engine writes through); msg is the text of that error; n is the
\* count reported by write (0 for open and close).
NotCalled == [err |-> "notcalled", msg |-> "", n |-> 0]

EngineOk == [err |-> "none", msg |-> "", n |-> 0]

EngineFail == [err |-> "StatusNotOk", msg |-> "engine failure", n |-> 0]

SinkFail == [err |-> "SinkError", msg |-> "sink failure", n |-> 0]

\* the error types of the lower layer
LowerErrors == {EngineFail.err, SinkFail.err}

\* open and close either succeed or fail
EngineOutcomes == {EngineOk, EngineFail, SinkFail}

\* write reports a count, possibly an impossible one, or fails
EngineWriteOutcomes(nbytes) ==
  {[err |-> "none", msg |-> "", n |-> k] : k \in (0 - 1)..(nbytes + 1)}
  \cup {EngineFail, SinkFail}

\* The prefix of the data that the engine took when it reported n
Taken(data, n) ==
  IF n <= 0 THEN <<>>
  ELSE IF n >= Len(data) THEN data
  ELSE SubSeq(data, 1, n)

(* ----------------------- method results -------------------------------- *)
\* Result of a method: err is "none" or the exception type raised, hasVal says
\* whether a value is returned and val is that value; cause is the text of the
\* error of the lower layer that the exception carries ("" when it has none).
Returns(v) == [err |-> "none", hasVal |-> TRUE, val |-> v, cause |-> ""]

ReturnsNone == [err |-> "none", hasVal |-> FALSE, val |-> 0, cause |-> ""]

Raises(e) == [err |-> e, hasVal |-> FALSE, val |-> 0, cause |-> ""]

\* an exception of type e that carries the text of the error it was made from
RaisesFrom(e, text) == [err |-> e, hasVal |-> FALSE, val |-> 0, cause |-> text]

\* core.use_tink_errors: any failure of the lower layer becomes a TinkError
\* that carries the text of the failure; a successful result passes through.
use_tink_errors(out) ==
  IF out.err # "none" THEN RaisesFrom("TinkError", out.msg)
  ELSE Returns(out.n)

\* _get_output_stream_adapter
get_output_stream_adapter(out) == use_tink_errors(out)

\* _write_to_output_stream_adapter: hands bytes(b) to the engine; sent is what
\* the engine is given.
write_to_output_stream_adapter(b, out) ==
  [res |-> use_tink_errors(out), sent |-> PyBytes(b)]

\* _close_output_stream_adapter without the error transform
close_output_stream_adapter_raw(out) ==
  IF out.err # "none" THEN RaisesFrom(out.err, out.msg)
  ELSE Returns(out.n)

\* _close_output_stream_adapter
close_output_stream_adapter(out) == use_tink_errors(out)

\* __init__ without the writable() test
init_nocheck(destWritable, out) ==
  LET r == get_output_stream_adapter(out) IN
  [res |-> IF r.err = "none" THEN ReturnsNone ELSE r, opened |-> TRUE,
   closed |-> FALSE]

\* __init__: res is what the constructor raises or "none"; opened says whether
\* the engine was opened; closed is the flag that io.RawIOBase.__init__ leaves.
init(destWritable, out) ==
  IF ~destWritable
    THEN [res |-> Raises("ValueError"), opened |-> FALSE, closed |-> FALSE]
    ELSE LET r == get_output_stream_adapter(out) IN
         [res |-> IF r.err = "none" THEN ReturnsNone ELSE r, opened |-> TRUE,
          closed |-> FALSE]

\* write with the two argument tests in the other order
write_typefirst(cl, b, out) ==
  IF ~IsBytesLike(b)
    THEN [res |-> Raises("TypeError"), engWrites |-> 0, sent |-> <<>>,
          closed |-> cl]
  ELSE IF cl
    THEN [res |-> Raises("ValueError"), engWrites |-> 0, sent |-> <<>>,
          closed |-> cl]
  ELSE LET w == write_to_output_stream_adapter(b, out)
           written == w.res IN
       IF written.err # "none"
         THEN [res |-> written, engWrites |-> 1, sent |-> w.sent,
               closed |-> cl]
       ELSE IF written.val < 0 \/ written.val > PyLen(b)
         THEN [res |-> Raises("TinkError"), engWrites |-> 1, sent |-> w.sent,
               closed |-> cl]
       ELSE [res |-> Returns(written.val), engWrites |-> 1, sent |-> w.sent,
             closed |-> cl]

\* write without the isinstance test
write_nocheck(cl, b, out) ==
  IF cl
    THEN [res |-> Raises("ValueError"), engWrites |-> 0, sent |-> <<>>,
          closed |-> cl]
  ELSE LET w == write_to_output_stream_adapter(b, out)
           written == w.res IN
       IF written.err # "none"
         THEN [res |-> written, engWrites |-> 1, sent |-> w.sent,
               closed |-> cl]
       ELSE IF written.val < 0 \/ written.val > PyLen(b)
         THEN [res |-> Raises("TinkError"), engWrites |-> 1, sent |-> w.sent,
               closed |-> cl]
       ELSE [res |-> Returns(written.val), engWrites |-> 1, sent |-> w.sent,
             closed |-> cl]

\* write without the upper bound on the reported count
write_nobound(cl, b, out) ==
  IF cl
    THEN [res |-> Raises("ValueError"), engWrites |-> 0, sent |-> <<>>,
          closed |-> cl]
  ELSE IF ~IsBytesLike(b)
    THEN [res |-> Raises("TypeError"), engWrites |-> 0, sent |-> <<>>,
          closed |-> cl]
  ELSE LET w == write_to_output_stream_adapter(b, out)
           written == w.res IN
       IF written.err # "none"
         THEN [res |-> written, engWrites |-> 1, sent |-> w.sent,
               closed |-> cl]
       ELSE IF written.val < 0
         THEN [res |-> Raises("TinkError"), engWrites |-> 1, sent |-> w.sent,
               closed |-> cl]
       ELSE [res |-> Returns(written.val), engWrites |-> 1, sent |-> w.sent,
             closed |-> cl]

\* write that reports the whole buffer as written whatever the engine took
write_all(cl, b, out) ==
  IF cl
    THEN [res |-> Raises("ValueError"), engWrites |-> 0, sent |-> <<>>,
          closed |-> cl]
  ELSE IF ~IsBytesLike(b)
    THEN [res |-> Raises("TypeError"), engWrites |-> 0, sent |-> <<>>,
          closed |-> cl]
  ELSE LET w == write_to_output_stream_adapter(b, out)
           written == w.res IN
       IF written.err # "none"
         THEN [res |-> written, engWrites |-> 1, sent |-> w.sent,
               closed |-> cl]
       ELSE IF written.val < 0 \/ written.val > PyLen(b)
         THEN [res |-> Raises("TinkError"), engWrites |-> 1, sent |-> w.sent,
               closed |-> cl]
       ELSE [res |-> Returns(PyLen(b)), engWrites |-> 1, sent |-> w.sent,
             closed |-> cl]

\* write that hands the remainder to the engine again after a partial write
write_retry(cl, b, out) ==
  IF cl
    THEN [res |-> Raises("ValueError"), engWrites |-> 0, sent |-> <<>>,
          closed |-> cl]
  ELSE IF ~IsBytesLike(b)
    THEN [res |-> Raises("TypeError"), engWrites |-> 0, sent |-> <<>>,
          closed |-> cl]
  ELSE LET w == write_to_output_stream_adapter(b, out)
           written == w.res IN
       IF written.err # "none"
         THEN [res |-> written, engWrites |-> 1, sent |-> w.sent,
               closed |-> cl]
       ELSE IF written.val < 0 \/ written.val > PyLen(b)
         THEN [res |-> Raises("TinkError"), engWrites |-> 1, sent |-> w.sent,
               closed |-> cl]
       ELSE IF written.val < PyLen(b)
         THEN [res |-> Returns(PyLen(b)), engWrites |-> 2, sent |-> w.sent,
               closed |-> cl]
       ELSE [res |-> Returns(written.val), engWrites |-> 1, sent |-> w.sent,
             closed |-> cl]

\* write that closes the stream when the engine fails
write_trapdoor(cl, b, out) ==
  IF cl
    THEN [res |-> Raises("ValueError"), engWrites |-> 0, sent |-> <<>>,
          closed |-> cl]
  ELSE IF ~IsBytesLike(b)
    THEN [res |-> Raises("TypeError"), engWrites |-> 0, sent |-> <<>>,
          closed |-> cl]
  ELSE LET w == write_to_output_stream_adapter(b, out)
           written == w.res IN
       IF written.err # "none"
         THEN [res |-> written, engWrites |-> 1, sent |-> w.sent,
               closed |-> TRUE]
       ELSE IF written.val < 0 \/ written.val > PyLen(b)
         THEN [res |-> Raises("TinkError"), engWrites |-> 1, sent |-> w.sent,
               closed |-> cl]
       ELSE [res |-> Returns(written.val), engWrites |-> 1, sent |-> w.sent,
             closed |-> cl]

\* write: res is the result, engWrites the number of times the engine's write
\* was invoked, sent what it was given, closed the flag afterwards.
write(cl, b, out) ==
  IF cl
    THEN [res |-> Raises("ValueError"), engWrites |-> 0, sent |-> <<>>,
          closed |-> cl]
  ELSE IF ~IsBytesLike(b)
    THEN [res |-> Raises("TypeError"), engWrites |-> 0, sent |-> <<>>,
          closed |-> cl]
  ELSE LET w == write_to_output_stream_adapter(b, out)
           written == w.res IN
       IF written.err # "none"
         THEN [res |-> written, engWrites |-> 1, sent |-> w.sent,
               closed |-> cl]
       ELSE IF written.val < 0 \/ written.val > PyLen(b)
         THEN [res |-> Raises("TinkError"), engWrites |-> 1, sent |-> w.sent,
               closed |-> cl]
       ELSE [res |-> Returns(written.val), engWrites |-> 1, sent |-> w.sent,
             closed |-> cl]

\* a flush that accepts a closed stream
flush_noop(cl) == ReturnsNone

\* flush, inherited from io.RawIOBase: raises ValueError on a closed stream and
\* does nothing otherwise; it never reaches the engine.
flush(cl) ==
  IF cl THEN Raises("ValueError") ELSE ReturnsNone

\* a close of the base class that leaves the flag as it is
IOBase_close_noop(cl) == cl

\* io.RawIOBase.close, reached by super().close(): flushes and sets the closed
\* flag; it is only called on a stream that is not closed.
IOBase_close(cl) == TRUE

\* close without the test of the closed flag
close_noguard(cl, out) ==
  LET c == close_output_stream_adapter(out) IN
  IF c.err # "none"
    THEN [res |-> c, closed |-> cl, engClose |-> TRUE]
    ELSE [res |-> ReturnsNone, closed |-> IOBase_close(cl), engClose |-> TRUE]

\* close that clears the flag when it finds the stream closed
close_reopens(cl, out) ==
  IF cl
    THEN [res |-> ReturnsNone, closed |-> FALSE, engClose |-> FALSE]
  ELSE LET c == close_output_stream_adapter(out) IN
       IF c.err # "none"
         THEN [res |-> c, closed |-> cl, engClose |-> TRUE]
         ELSE [res |-> ReturnsNone, closed |-> IOBase_close(cl),
               engClose |-> TRUE]

\* close: res is the result, closed the flag afterwards, engClose says whether
\* the engine's close was invoked.
close(cl, out) ==
  IF cl
    THEN [res |-> ReturnsNone, closed |-> cl, engClose |-> FALSE]
  ELSE LET f == flush(cl) IN
       IF f.err # "none"
         THEN [res |-> f, closed |-> cl, engClose |-> FALSE]
       ELSE LET c == close_output_stream_adapter(out) IN
            IF c.err # "none"
              THEN [res |-> c, closed |-> cl, engClose |-> TRUE]
              ELSE [res |-> ReturnsNone, closed |-> IOBase_close(cl),
                    engClose |-> TRUE]

\* a writable that answers False once the stream is closed
writable_open(cl) == Returns(IF cl THEN 0 ELSE 1)

\* writable: True (1), whatever the state of the stream
writable(cl) == Returns(1)

(* ------------------------------ state ---------------------------------- *)
\* phase : "new" before construction, "live" while the caller holds the
\*         stream, "failed" when the constructor raised, "dead" once the
\*         object was discarded and finalized
\* closed: the closed flag of io.RawIOBase
\* engine: how often each operation of the engine was invoked
\* sink  : data = the bytes the engine took and emitted ciphertext for,
\*         finals = the number of final segments emitted
\* hist  : closeCalls = close() calls made by the caller,
\*         closeOk = some close() call of the caller returned normally,
\*         writeFailed = some write() raised
\* last  : the last call: its name, the closed flag before it, whether the
\*         destination given to the constructor was writable, its argument,
\*         the engine's outcome and its result
\* nops  : the number of calls the caller made on the stream
\* plan  : for a caller that writes one plaintext in chunks: target = the
\*         plaintext, rest = the part of it that no write has reported as
\*         written yet; both empty for a caller with no such plan
NoPlan == [target |-> <<>>, rest |-> <<>>]

Init ==
  /\ phase = "new"
  /\ closed = FALSE
  /\ engine = [open |-> 0, write |-> 0, close |-> 0]
  /\ sink = [data |-> <<>>, finals |-> 0]
  /\ hist = [closeCalls |-> 0, closeOk |-> FALSE, writeFailed |-> FALSE]
  /\ last = [op |-> "none", pre |-> FALSE, destW |-> TRUE, buf |-> NoBuf,
             rep |-> NotCalled, res |-> ReturnsNone]
  /\ nops = 0
  /\ plan = NoPlan

\* RawEncryptingStream(stream_aead, ciphertext_destination, associated_data)
Construct ==
  /\ phase = "new"
  /\ \E destWritable \in BOOLEAN, out \in EngineOutcomes :
       LET r == init(destWritable, out) IN
       /\ phase' = IF r.res.err = "none" THEN "live" ELSE "failed"
       /\ engine' = IF r.opened THEN [engine EXCEPT !.open = @ + 1] ELSE engine
       /\ closed' = r.closed
       /\ last' = [op |-> "init", pre |-> FALSE, destW |-> destWritable,
                   buf |-> NoBuf,
                   rep |-> IF r.opened THEN out ELSE NotCalled, res |-> r.res]
  /\ UNCHANGED <<sink, hist, nops, plan>>

\* stream.write(b), the engine answering out
WriteStep(b, out) ==
  LET r == write(closed, b, out) IN
  /\ closed' = r.closed
  /\ engine' = [engine EXCEPT !.write = @ + r.engWrites]
  /\ sink' = IF r.engWrites > 0 /\ out.err = "none"
               THEN [sink EXCEPT !.data = @ \o Taken(r.sent, out.n)]
               ELSE sink
  /\ last' = [op |-> "write", pre |-> closed, destW |-> TRUE, buf |-> b,
              rep |-> IF r.engWrites > 0 THEN out ELSE NotCalled,
              res |-> r.res]
  /\ hist' = [hist EXCEPT !.writeFailed = @ \/ r.res.err # "none"]
  /\ nops' = nops + 1
  /\ UNCHANGED phase

\* stream.write(b)
Write ==
  /\ phase = "live"
  /\ nops < MaxOps
  /\ \E b \in Buffers :
       \E out \in EngineWriteOutcomes(Len(PyBytes(b))) : WriteStep(b, out)
  /\ UNCHANGED plan

\* stream.flush()
Flush ==
  /\ phase = "live"
  /\ nops < MaxOps
  /\ last' = [op |-> "flush", pre |-> closed, destW |-> TRUE, buf |-> NoBuf,
              rep |-> NotCalled, res |-> flush(closed)]
  /\ nops' = nops + 1
  /\ UNCHANGED <<phase, closed, engine, sink, hist, plan>>

\* stream.close(), the engine answering out
CloseStep(out) ==
  LET r == close(closed, out) IN
  /\ closed' = r.closed
  /\ engine' = IF r.engClose THEN [engine EXCEPT !.close = @ + 1]
               ELSE engine
  /\ sink' = IF r.engClose /\ out.err = "none"
               THEN [sink EXCEPT !.finals = @ + 1]
               ELSE sink
  /\ hist' = [hist EXCEPT !.closeCalls = @ + 1,
                           !.closeOk = @ \/ r.res.err = "none"]
  /\ last' = [op |-> "close", pre |-> closed, destW |-> TRUE, buf |-> NoBuf,
              rep |-> IF r.engClose THEN out ELSE NotCalled,
              res |-> r.res]
  /\ nops' = nops + 1
  /\ UNCHANGED phase

\* stream.close()
Close ==
  /\ phase = "live"
  /\ nops < MaxOps
  /\ \E out \in EngineOutcomes : CloseStep(out)
  /\ UNCHANGED plan

\* stream.writable()
Writable ==
  /\ phase = "live"
  /\ nops < MaxOps
  /\ last' = [op |-> "writable", pre |-> closed, destW |-> TRUE, buf |-> NoBuf,
              rep |-> NotCalled, res |-> writable(closed)]
  /\ nops' = nops + 1
  /\ UNCHANGED <<phase, closed, engine, sink, hist, plan>>

\* The caller drops the stream: the finalizer inherited from io.RawIOBase
\* calls close() and discards whatever it raises.
Abandon ==
  /\ phase = "live"
  /\ \E out \in EngineOutcomes :
       LET r == close(closed, out) IN
       /\ closed' = r.closed
       /\ engine' = IF r.engClose THEN [engine EXCEPT !.close = @ + 1]
                    ELSE engine
       /\ sink' = IF r.engClose /\ out.err = "none"
                    THEN [sink EXCEPT !.finals = @ + 1]
                    ELSE sink
       /\ last' = [op |-> "del", pre |-> closed, destW |-> TRUE, buf |-> NoBuf,
                   rep |-> IF r.engClose THEN out ELSE NotCalled,
                   res |-> ReturnsNone]
  /\ phase' = "dead"
  /\ UNCHANGED <<hist, nops, plan>>

Next ==
  \/ Construct
  \/ Write
  \/ Flush
  \/ Close
  \/ Writable
  \/ Abandon

Spec == Init /\ [][Next]_vars

(* ------------------ a caller that writes in chunks --------------------- *)
\* The caller has a plaintext to write.  It hands a prefix of what is left to
\* write(), drops from what is left as many bytes as write() reports, and
\* calls close() once nothing is left.  It gives up when a call raises.
InitChunks ==
  /\ phase = "new"
  /\ closed = FALSE
  /\ engine = [open |-> 0, write |-> 0, close |-> 0]
  /\ sink = [data |-> <<>>, finals |-> 0]
  /\ hist = [closeCalls |-> 0, closeOk |-> FALSE, writeFailed |-> FALSE]
  /\ last = [op |-> "none", pre |-> FALSE, destW |-> TRUE, buf |-> NoBuf,
             rep |-> NotCalled, res |-> ReturnsNone]
  /\ nops = 0
  /\ \E b \in ByteSeqs : plan = [target |-> b, rest |-> b]

\* what is left after n bytes of it were written
Drop(seq, n) == SubSeq(seq, n + 1, Len(seq))

\* the caller writes the first k bytes of what is left
ChunkWrite ==
  /\ phase = "live"
  /\ nops < MaxChunkOps
  /\ hist.closeCalls = 0
  /\ ~hist.writeFailed
  /\ \E k \in 0..Len(plan.rest) :
       LET b == [kind |-> "bytes", data |-> SubSeq(plan.rest, 1, k),
                 itemsize |-> 1] IN
       \E out \in EngineWriteOutcomes(k) :
         /\ WriteStep(b, out)
         /\ plan' = IF last'.res.err = "none"
                      THEN [plan EXCEPT !.rest = Drop(@, last'.res.val)]
                      ELSE plan

\* the caller closes the stream once the whole plaintext is written
ChunkClose ==
  /\ phase = "live"
  /\ nops < MaxChunkOps
  /\ hist.closeCalls = 0
  /\ ~hist.writeFailed
  /\ plan.rest = <<>>
  /\ \E out \in EngineOutcomes : CloseStep(out)
  /\ UNCHANGED plan

NextChunks ==
  \/ Construct
  \/ ChunkWrite
  \/ ChunkClose

SpecChunks == InitChunks /\ [][NextChunks]_vars

TypeOK ==
  /\ phase \in {"new", "live", "failed", "dead"}
  /\ closed \in BOOLEAN
  /\ nops \in 0..MaxOps

(* ------------------------------ claims --------------------------------- *)
\* A step is a call of op by the caller
Call(op) == last'.op = op /\ nops' = nops + 1

\* C1: when close() is called on an open stream and the engine's close fails,
\* the failure is raised to the caller and the stream is closed afterwards.
C1_CloseFailureLeavesClosed ==
  (last.op = "close" /\ ~last.pre /\ last.rep.err \in LowerErrors)
    => (last.res.err # "none" /\ closed)

\* C2: the engine's close is invoked at most once, whatever the caller does,
\* and exactly once if some close() call returned normally.
C2_EngineClosedAtMostOnce ==
  /\ engine.close <= 1
  /\ hist.closeOk => engine.close = 1

\* C3: a stream that was written to successfully and then discarded without
\* any close() call of the caller has no final segment in the sink.
C3_AbandonedLacksFinalSegment ==
  (phase = "dead" /\ hist.closeCalls = 0 /\ engine.write >= 1
     /\ ~hist.writeFailed)
    => sink.finals = 0

\* C4: once a close() has returned normally, every further close() returns
\* without an error, invokes no operation of the engine, emits nothing to the
\* sink and leaves the stream closed.
C4_SecondCloseIsNoOp ==
  [][(hist.closeOk /\ Call("close"))
       => (last'.res = ReturnsNone /\ engine' = engine /\ sink' = sink
           /\ closed')]_vars

C4_Witness ==
  last.op = "close" /\ last.pre /\ hist.closeOk /\ hist.closeCalls >= 2

\* C5: every write() on a closed stream raises the invalid-state error
\* (ValueError), whatever the argument; the engine is not invoked, the sink is
\* unchanged and the stream stays closed.
C5_WriteOnClosedFails ==
  [][(closed /\ Call("write"))
       => (last'.res = Raises("ValueError") /\ engine' = engine
           /\ sink' = sink /\ closed')]_vars

C5_Witness ==
  last.op = "write" /\ last.pre /\ last.buf.kind = "str"
    /\ last.res.err = "ValueError"

\* C6 as stated: write() of an argument that is not bytes-like raises the type
\* error in every state of the stream, without invoking the engine.
C6_NonBytesAlwaysTypeError ==
  (last.op = "write" /\ ~IsBytesLike(last.buf))
    => (last.res.err = "TypeError" /\ last.rep = NotCalled)

\* C6 as amended: write() of an argument that is not bytes-like raises the
\* type error on an open stream and the invalid-state error (ValueError) on a
\* closed one; in both cases the engine is not invoked, the sink is unchanged
\* and the closed flag is unchanged.
C6_NonBytesRejectedLocally ==
  [][(Call("write") /\ ~IsBytesLike(last'.buf))
       => (/\ last'.res = Raises(IF closed THEN "ValueError" ELSE "TypeError")
           /\ engine' = engine /\ sink' = sink /\ closed' = closed)]_vars

C6_Witness ==
  last.op = "write" /\ ~last.pre /\ last.buf.kind = "str"
    /\ last.res.err = "TypeError"

\* C7: the closed flag never goes back from true to false, and a stream is
\* open right after a successful construction.
C7_ClosedIsMonotone ==
  [][(closed => closed')
       /\ ((phase = "new" /\ phase' = "live") => ~closed')]_vars

C7_Witness ==
  closed /\ last.pre /\ last.op \in {"write", "flush", "close"}
    /\ last.res.err # "none"

C9_UnwritableDestinationRejected ==
  (last.op = "init" /\ ~last.destW)
    => (/\ last.res = Raises("ValueError") /\ last.rep = NotCalled
        /\ engine = [open |-> 0, write |-> 0, close |-> 0]
        /\ sink = [data |-> <<>>, finals |-> 0]
        /\ phase = "failed")

C9_Witness ==
  last.op = "init" /\ ~last.destW /\ phase = "failed"

\* C10 as stated: flush() on a closed stream raises no error.
C10_FlushOnClosedIsSilent ==
  (last.op = "flush" /\ last.pre) => last.res.err = "none"

\* C10 as amended: flush() on a closed stream raises the invalid-state error
\* (ValueError); it invokes no operation of the engine, emits nothing to the
\* sink and leaves the stream closed.
C10_FlushOnClosedRaises ==
  [][(closed /\ Call("flush"))
       => (last'.res = Raises("ValueError") /\ engine' = engine
           /\ sink' = sink /\ closed')]_vars

C10_Witness ==
  last.op = "flush" /\ last.pre /\ last.res.err = "ValueError" /\ closed

\* C11: every failure of the engine or of the sink adapter during the opening
\* of the engine (construction), a write or a close reaches the caller as a
\* TinkError that carries the text of the failure; no call ever raises an
\* error type of the lower layer.
C11_LowerFailuresBecomeTinkError ==
  /\ (last.op \in {"init", "write", "close"} /\ last.rep.err \in LowerErrors)
       => (last.res.err = "TinkError" /\ last.res.cause = last.rep.msg)
  /\ last.res.err \notin LowerErrors

C11_Witness ==
  last.op = "close" /\ last.rep = SinkFail /\ last.res.err = "TinkError"
    /\ last.res.cause = "sink failure"

\* C12: whatever way the caller splits a plaintext into chunks, handing the
\* unwritten rest to write() again after a partial write, once close() has
\* returned the engine has taken exactly the plaintext, byte for byte and in
\* order: the same as when the plaintext is written in one call.
C12_ChunkingDeliversPlaintext ==
  hist.closeOk => (sink.data = plan.target /\ sink.finals = 1)

C12_Witness ==
  /\ hist.closeOk
  /\ Len(plan.target) = 2
  /\ plan.target[1] # plan.target[2]
  /\ engine.write >= 2
  /\ sink.data = plan.target

\* C13: writable() returns True in every state in which it is called, open or
\* closed, and changes nothing of the stream, the engine or the sink.
C13_WritableAlwaysTrue ==
  [][Call("writable")
       => (last'.res = Returns(1) /\ closed' = closed /\ phase' = phase
           /\ engine' = engine /\ sink' = sink)]_vars

C13_Witness ==
  last.op = "writable" /\ last.pre /\ closed /\ last.res = Returns(1)

\* C14: the stream is never closed unless the engine's close has been invoked
\* and has emitted the final segment, and once the engine's close has
\* succeeded the engine's write is never invoked again.
C14_EngineCloseBeforeClosed ==
  [][(closed' => (engine'.close >= 1 /\ sink'.finals >= 1))
       /\ (sink.finals >= 1 => engine'.write = engine.write)]_vars

C14_Witness ==
  closed /\ sink.finals = 1 /\ last.op = "write" /\ last.pre
    /\ IsBytesLike(last.buf)

\* C15: a write() that passes the two argument tests invokes the engine's
\* write exactly once, with the whole content of the buffer; when the engine
\* takes fewer bytes than it was given, write returns that count and the rest
\* is not handed to the engine again.
C15_OneEngineWritePerWrite ==
  [][(Call("write") /\ ~closed /\ IsBytesLike(last'.buf))
       => (/\ engine'.write = engine.write + 1
           /\ engine'.close = engine.close
           /\ last'.rep.err = "none"
                => sink'.data =
                     sink.data \o Taken(PyBytes(last'.buf), last'.rep.n)
           /\ (last'.rep.err = "none" /\ 0 <= last'.rep.n
                 /\ last'.rep.n < PyLen(last'.buf))
                => last'.res = Returns(last'.rep.n))]_vars

C15_Witness ==
  /\ last.op = "write" /\ ~last.pre /\ last.buf.kind = "bytes"
  /\ PyLen(last.buf) = 2 /\ last.rep.err = "none" /\ last.rep.n = 1
  /\ last.res = Returns(1)

\* C16: for a buffer of an accepted type, when the engine reports a count c
\* with 0 <= c <= the number of bytes it was given, write returns c.
C16_CountWithinBytesAccepted ==
  (last.op = "write" /\ ~last.pre /\ IsBytesLike(last.buf)
     /\ last.rep.err = "none" /\ 0 <= last.rep.n
     /\ last.rep.n <= Len(PyBytes(last.buf)))
    => last.res = Returns(last.rep.n)

\* C17: a write() that raises leaves the closed flag as it was; on a stream
\* that is still open after a failed write, a later write of a bytes-like
\* buffer is handed to the engine and a later close() invokes the engine's
\* close, which emits the final segment and closes the stream when it succeeds.
C17_FailedWriteKeepsLifecycle ==
  [][/\ (Call("write") /\ last'.res.err # "none")
          => (closed' = closed /\ phase' = phase)
     /\ (hist.writeFailed /\ ~closed /\ Call("write")
           /\ IsBytesLike(last'.buf))
          => engine'.write = engine.write + 1
     /\ (hist.writeFailed /\ ~closed /\ Call("close"))
          => (/\ engine'.close = engine.close + 1
              /\ last'.rep.err = "none"
                   => (sink'.finals = sink.finals + 1 /\ closed'))]_vars

C17_Witness ==
  /\ hist.writeFailed /\ last.op = "close" /\ ~last.pre
  /\ closed /\ sink.finals = 1 /\ engine.write >= 1
====
